---- MODULE Spec2Model ----
(***************************************************************************)
(* Movie-clip frame prefetching (editors/space_clip/clip_editor.c,         *)
(* "Pre-Fetching Functions").  The editor asks for a prefetch job; the job *)
(* either fans out over a pool of workers sharing a PrefetchQueue          *)
(* (image sequences) or sweeps the range in one background thread          *)
(* (movie files), filling the clip's frame cache.                          *)
(***************************************************************************)
EXTENDS Integers, Sequences, FiniteSets

(* ------------------------------ bounds --------------------------------- *)

\* Frame numbers the editor, the scene and the cache range over: 0..MaxFrame.
MaxFrame == 2

\* BLI_task_scheduler_num_threads(): tasks pushed to the pool.
NWorkers == 2

\* Events the environment injects into one run: a cache change by another
\* user of the cache, a failed file read or decode, a cancel request.
MaxEnv == 1

Frames == 0..MaxFrame
Workers == 1..NWorkers
\* Thread ids: the movie path's single background thread is numbered after
\* the pool's tasks.
MovieThread == NWorkers + 1
Threads == Workers \cup {MovieThread}
\* The cache limits tried: one the range can exceed, one it cannot.
CapSmall == MaxFrame - 1
Unlimited == MaxFrame + 2

VARIABLES
  ctx,          \* the editor context: clip, scene frame range, sc->user.framenr
  cache,        \* frames of the clip cached for the editor's variant
  cap,          \* number of frames the cache holds before it reports "full"
  G_is_break,   \* G.is_break
  phase,        \* position of the prefetch request / job
  pj,           \* the PrefetchJob
  stop,         \* wm job's *stop
  do_update,    \* wm job's *do_update
  progress,     \* wm job's *progress, kept as <<numerator, divisor>>
  queue,        \* the PrefetchQueue of start_prefetch_threads
  spin,         \* queue.spin: 0 when free, else the worker holding it
  pc,           \* position of each pool task
  wcur,         \* each pool task's current_frame
  mv,           \* the movie thread: position, frame, loop, frames_processed
  env,          \* the environment's events: how many are left, how many of each kind happened
  hist          \* history of the run (what was handed out, decoded, inserted)

vars == <<ctx, cache, cap, G_is_break, phase, pj, stop, do_update, progress,
          queue, spin, pc, wcur, mv, env, hist>>

(* ------------------------- external collaborators ---------------------- *)

\* BKE_movieclip_has_cached_frame(clip, &user)
BKE_movieclip_has_cached_frame(c, frame) == frame \in c

\* BKE_movieclip_put_frame_if_possible(clip, &user, ibuf): false when full.
BKE_movieclip_put_frame_if_possible(c, limit) == Cardinality(c) < limit

(* ------------------------------ helpers -------------------------------- *)

IN_RANGE_INCL(a, b, c) == a >= b /\ a <= c

min_ii(a, b) == IF a < b THEN a ELSE b

check_prefetch_break == G_is_break

\* Faulty variant: the scan does not ask the cache.
prefetch_find_uncached_frame_Blind(c, from_frame, end_frame, direction) ==
  from_frame

RECURSIVE prefetch_find_uncached_frame(_, _, _, _)
prefetch_find_uncached_frame(c, from_frame, end_frame, direction) ==
  IF direction > 0
    THEN IF from_frame <= end_frame /\ BKE_movieclip_has_cached_frame(c, from_frame)
           THEN prefetch_find_uncached_frame(c, from_frame + 1, end_frame, direction)
           ELSE from_frame
    ELSE IF from_frame >= end_frame /\ BKE_movieclip_has_cached_frame(c, from_frame)
           THEN prefetch_find_uncached_frame(c, from_frame - 1, end_frame, direction)
           ELSE from_frame

prefetch_get_start_frame(x) == x.sfra

\* Faulty variant: the clip's length is added without the -1.
prefetch_get_final_frame_OnePast(x) ==
  IF x.len # 0 THEN min_ii(x.efra, x.sfra + x.len) ELSE x.efra

prefetch_get_final_frame(x) ==
  IF x.len # 0 THEN min_ii(x.efra, x.sfra + x.len - 1) ELSE x.efra

\* The end_frame local of prefetch_check_early_out; -1 when the check
\* returns before computing it (no clip).
EarlyOutEndFrame(x) == IF ~x.clip THEN -1 ELSE prefetch_get_final_frame(x)

\* Faulty variant: the check does not look for a bound clip.
prefetch_check_early_out_NoClipTest(x, c) ==
  LET end_frame == prefetch_get_final_frame(x)
      first == prefetch_find_uncached_frame(c, x.framenr, end_frame, 1)
  IN  IF first > end_frame \/ first = x.len
        THEN LET start_frame == prefetch_get_start_frame(x)
                 back == prefetch_find_uncached_frame(c, x.framenr, start_frame, -1)
             IN  back < start_frame
        ELSE FALSE

prefetch_check_early_out(x, c) ==
  IF ~x.clip
    THEN TRUE
    ELSE LET end_frame == prefetch_get_final_frame(x)
             first == prefetch_find_uncached_frame(c, x.framenr, end_frame, 1)
         IN  IF first > end_frame \/ first = x.len
               THEN LET start_frame == prefetch_get_start_frame(x)
                        back == prefetch_find_uncached_frame(c, x.framenr, start_frame, -1)
                    IN  back < start_frame
               ELSE FALSE

(* ------------------------------- state --------------------------------- *)

NoJob == [clip_local |-> FALSE, start_frame |-> 0, current_frame |-> 0, end_frame |-> 0,
          variant |-> 0]

NoQueue == [initial_frame |-> 0, current_frame |-> 0, start_frame |-> 0,
            end_frame |-> 0, forward |-> TRUE, variant |-> 0]

NoMovie == [pc |-> "idle", frame |-> 0, forward |-> TRUE, frames_processed |-> 0]

NoHist == [cache0       |-> {},      \* the cache when the request was made
           handed       |-> << >>,   \* frames next() returned, in order
           flips        |-> 0,       \* changes of the queue's direction
           decoded      |-> << >>,   \* decode calls of the movie thread, in order
           ndecoded     |-> [f \in Frames |-> 0],  \* decode calls per frame
           ninserted    |-> [f \in Frames |-> 0],  \* accepted insertions per frame
           rejected     |-> FALSE,   \* some insertion was rejected as full
           late         |-> [t \in Threads |-> 0],  \* decodes begun after that
           lateStop     |-> [t \in Threads |-> 0],  \* decodes begun with *stop set
           lateInsert   |-> FALSE,   \* an insertion was tried after a rejection
           sel          |-> [t \in Threads |-> -1], \* frame selected, not yet decoded
           raced        |-> {},      \* threads whose selection was cached since
           redecoded    |-> {},      \* decoded while cached, selection not raced
           racedDecodes |-> {},      \* decoded while cached, selection raced
           stale        |-> FALSE,   \* G.is_break was set when the request was
                                     \* made (kept until the task begins)
           mem          |-> [t \in Threads |-> -1], \* frame whose image the thread's buffer holds
           miskeyed     |-> {},      \* keys inserted with another frame's image
           checkEnd     |-> -1,      \* end_frame the early-out check computed
           tot          |-> 0,       \* tasks the returned pool call had pushed
           bufs         |-> 0,       \* file buffers allocated and not released
           keys         |-> {},      \* <<call, variant>> pairs of the run's cache calls
           used         |-> {},      \* <<object, call>> pairs of the movie thread
           unjoined     |-> {},      \* tasks still running when the pool call returned
           cloneFrees   |-> 0,       \* times the clone was released
           jobFrees     |-> 0]       \* times the PrefetchJob was released

Contexts ==
  { x \in [clip : BOOLEAN, source : {"SEQUENCE", "MOVIE", "OTHER"},
           len : {0, 2}, sfra : {0, 1}, efra : Frames, framenr : Frames] :
      /\ x.sfra <= x.efra
      /\ x.len # 0 => x.efra \in {x.sfra, MaxFrame}
      /\ ~x.clip => (x.source = "OTHER" /\ x.len = 0 /\ x.sfra = 0 /\
                     x.efra = MaxFrame /\ x.framenr = 0) }

\* The frames a request in context x can look at: its range and the frames
\* between the range and the editor's frame.  The cache is modelled on these.
Reachable(x) ==
  min_ii(x.sfra, x.framenr) ..
    (IF x.framenr > prefetch_get_final_frame(x) THEN x.framenr
                                                ELSE prefetch_get_final_frame(x))

Init ==
  /\ ctx \in Contexts
  /\ cap \in {CapSmall, Unlimited}
  /\ cache \in {c \in SUBSET Reachable(ctx) : Cardinality(c) <= cap}
  /\ G_is_break \in BOOLEAN
  /\ phase = "idle"
  /\ pj = NoJob
  /\ stop = 0
  /\ do_update = 0
  /\ progress = <<0, 1>>
  /\ queue = NoQueue
  /\ spin = 0
  /\ pc = [w \in Workers |-> "idle"]
  /\ wcur = [w \in Workers |-> 0]
  /\ mv = NoMovie
  /\ env = [left |-> MaxEnv, fg |-> 0, fail |-> 0, evict |-> 0, cancel |-> 0,
            variant |-> 0]
  /\ hist = [NoHist EXCEPT !.cache0 = cache]

(* ---------------------- clip_start_prefetch_job ------------------------ *)

\* The editor's clip and its user's (render_size, render_flag), as they are
\* now: 0 as the request found them, 1 once the user has changed them.
EditorVariant == env.variant

\* Faulty variant: the global cancel signal is left as the request found it.
JobStartBreak_Keeps(b) == b

\* `G.is_break = false` before WM_jobs_start.
JobStartBreak(b) == FALSE

\* Faulty variant: the cancel signal is cleared before the early-out check.
EarlyOutBreak_Clears(b) == FALSE

\* G.is_break when the early-out check returns true: the function returns
\* before anything is written.
EarlyOutBreak(b) == b

clip_start_prefetch_job ==
  /\ phase = "idle"
  /\ IF prefetch_check_early_out(ctx, cache)
       THEN /\ phase' = "skipped"
            /\ hist' = [hist EXCEPT !.checkEnd = EarlyOutEndFrame(ctx)]
            /\ G_is_break' = EarlyOutBreak(G_is_break)
            /\ UNCHANGED pj
       ELSE /\ pj' = [clip_local    |-> (ctx.source = "MOVIE"),
                      start_frame   |-> prefetch_get_start_frame(ctx),
                      current_frame |-> ctx.framenr,
                      end_frame     |-> prefetch_get_final_frame(ctx),
                      variant       |-> EditorVariant]
            /\ G_is_break' = JobStartBreak(G_is_break)
            /\ hist' = [hist EXCEPT !.stale = G_is_break,
                                    !.checkEnd = EarlyOutEndFrame(ctx)]
            /\ phase' = "started"
  /\ UNCHANGED <<ctx, cache, cap, stop, do_update, progress, queue, spin, pc,
                 wcur, mv, env>>

(* --------------------------- job host (wm_jobs) ------------------------ *)

\* The user presses escape while the job exists: G.is_break is raised.
UserCancel ==
  /\ phase \in {"started", "running"}
  /\ env.left > 0
  /\ ~G_is_break
  /\ G_is_break' = TRUE
  /\ env' = [env EXCEPT !.left = @ - 1, !.cancel = @ + 1]
  /\ UNCHANGED <<ctx, cache, cap, phase, pj, stop, do_update, progress, queue,
                 spin, pc, wcur, mv, hist>>

\* The job host asks the job to stop (WM_jobs_stop / WM_jobs_kill): *stop = 1.
HostStop ==
  /\ phase \in {"started", "running"}
  /\ env.left > 0
  /\ stop = 0
  /\ stop' = 1
  /\ env' = [env EXCEPT !.left = @ - 1, !.cancel = @ + 1]
  /\ UNCHANGED <<ctx, cache, cap, G_is_break, phase, pj, do_update, progress,
                 queue, spin, pc, wcur, mv, hist>>

\* The user picks another proxy size or clip in the editor while the job
\* exists: sc->clip / sc->user change, the job's copies do not.
EditorChange ==
  /\ phase \in {"started", "running"}
  /\ env.left > 0
  /\ env.variant = 0
  /\ env' = [env EXCEPT !.left = @ - 1, !.variant = 1]
  /\ UNCHANGED <<ctx, cache, cap, G_is_break, phase, pj, stop, do_update,
                 progress, queue, spin, pc, wcur, mv, hist>>

(* ------------------- other users of the clip's cache ------------------- *)

\* The foreground decodes `frame` itself and caches it.
FgInsert(frame) ==
  /\ phase = "running"
  /\ env.left > 0
  /\ frame \in Reachable(ctx) \ cache
  /\ Cardinality(cache) < cap
  /\ cache' = cache \cup {frame}
  /\ env' = [env EXCEPT !.left = @ - 1, !.fg = @ + 1]
  /\ hist' = [hist EXCEPT !.raced = @ \cup
                {t \in Threads : hist.sel[t] = frame}]
  /\ UNCHANGED <<ctx, cap, G_is_break, phase, pj, stop, do_update, progress,
                 queue, spin, pc, wcur, mv>>

\* A cached frame is dropped (cache limiter, clip reload).
FgEvict(frame) ==
  /\ phase = "running"
  /\ env.left > 0
  /\ frame \in cache
  /\ cache' = cache \ {frame}
  /\ env' = [env EXCEPT !.left = @ - 1, !.evict = @ + 1]
  /\ UNCHANGED <<ctx, cap, G_is_break, phase, pj, stop, do_update, progress,
                 queue, spin, pc, wcur, mv, hist>>

(* ------------------------------ history -------------------------------- *)

\* Thread t selected `frame` as uncached (scan or lookup).
HistSelect(h, t, frame) ==
  [h EXCEPT !.sel[t] = frame, !.raced = @ \ {t}]

\* Thread t starts a decode call for `frame`.
HistDecode(h, t, frame) ==
  [h EXCEPT !.decoded = IF t = MovieThread THEN Append(@, frame) ELSE @,
            !.ndecoded[frame] = @ + 1,
            !.sel[t] = -1,
            !.late[t] = IF h.rejected THEN @ + 1 ELSE @,
            !.lateStop[t] = IF stop # 0 THEN @ + 1 ELSE @,
            !.redecoded = IF frame \in cache /\ t \notin h.raced
                            THEN @ \cup {frame} ELSE @,
            !.racedDecodes = IF frame \in cache /\ t \in h.raced
                               THEN @ \cup {frame} ELSE @]

\* Thread t's buffer was filled from the file or the stream of `frame`.
HistRead(h, t, frame) == [h EXCEPT !.mem[t] = frame]

\* Thread t offered its buffer to the cache under `key`; the buffer is freed.
HistKeyed(h, t, key, ok) ==
  [h EXCEPT !.miskeyed = IF ok /\ h.mem[t] # key THEN @ \cup {key} ELSE @,
            !.mem[t] = -1]

\* A cache call of the run (lookup or insertion) was made for `variant`.
HistKey(h, call, variant) == [h EXCEPT !.keys = @ \cup {<<call, variant>>}]

\* File buffers were allocated (d > 0) or released (d < 0).
HistBuf(h, d) == [h EXCEPT !.bufs = @ + d]

\* The cache answered an insertion of `frame`.
HistPut(h, frame, ok) ==
  IF ok THEN [h EXCEPT !.ninserted[frame] = @ + 1,
                       !.lateInsert = @ \/ h.rejected]
        ELSE [h EXCEPT !.rejected = TRUE, !.lateInsert = @ \/ h.rejected]

(* ------------------------- prefetch_startjob --------------------------- *)

\* BLI_task_scheduler_num_threads(): the values tot_thread takes here, a
\* single task and as many tasks as there are workers.
BLI_task_scheduler_num_threads == {1, NWorkers}

\* start_prefetch_threads, up to the pushes: the queue is initialised and
\* tot_thread tasks are pushed.
start_prefetch_threads(tot_thread) ==
  /\ queue' = [initial_frame |-> pj.current_frame,
               current_frame |-> pj.current_frame,
               start_frame   |-> pj.start_frame,
               end_frame     |-> pj.end_frame,
               forward       |-> TRUE,
               variant       |-> pj.variant]
  /\ pc' = [w \in Workers |-> IF w <= tot_thread THEN "pushed" ELSE "idle"]
  /\ UNCHANGED <<mv>>

\* do_prefetch_movie, entry: frames_processed = 0, first loop initialised.
do_prefetch_movie ==
  /\ mv' = [pc |-> "iter", frame |-> pj.current_frame, forward |-> TRUE,
            frames_processed |-> 0]
  /\ UNCHANGED <<queue, pc>>

\* Faulty variant: every source that is not a sequence is read as a movie.
IsMovieSource_Fallback(source) == source # "SEQUENCE"

\* `else if (pj->clip->source == MCLIP_SRC_MOVIE)`; any other source falls to
\* the final else, whose assertion changes nothing of the job's state.
IsMovieSource(source) == source = "MOVIE"

prefetch_startjob ==
  /\ phase = "started"
  /\ phase' = "running"
  /\ IF ctx.source = "SEQUENCE"
       THEN (\E tot_thread \in BLI_task_scheduler_num_threads :
               start_prefetch_threads(tot_thread))
     ELSE IF IsMovieSource(ctx.source) THEN do_prefetch_movie
     ELSE UNCHANGED <<queue, pc, mv>>
  /\ hist' = [hist EXCEPT !.stale = FALSE]
  /\ UNCHANGED <<ctx, cache, cap, G_is_break, pj, stop, do_update, progress,
                 spin, wcur, env>>

(* --------------------- prefetch_thread_next_frame ---------------------- *)

\* Faulty variant: the forward scan starts at the cursor itself.
ForwardScanFrom_AtCursor(q) == q.current_frame

\* First frame the forward scan looks at.
ForwardScanFrom(q) == q.current_frame + 1

\* Faulty variant: the backward scan starts at the cursor itself.
BackwardScanFrom_AtCursor(q) == q.current_frame

\* First frame the backward scan looks at.
BackwardScanFrom(q) == q.current_frame - 1

\* Faulty variant: the guard does not look at *queue->stop.
NextFrameAllowed_NoStop(q) ==
  /\ ~check_prefetch_break
  /\ IN_RANGE_INCL(q.current_frame, q.start_frame, q.end_frame)

\* Faulty variant: the guard does not look at G.is_break.
NextFrameAllowed_NoBreak(q) ==
  /\ stop = 0
  /\ IN_RANGE_INCL(q.current_frame, q.start_frame, q.end_frame)

\* The guard of the whole body.
NextFrameAllowed(q) ==
  /\ stop = 0
  /\ ~check_prefetch_break
  /\ IN_RANGE_INCL(q.current_frame, q.start_frame, q.end_frame)

\* Faulty variant: at the flip the cursor takes the forward scan's result
\* instead of initial_frame.
NextFrameScan_CursorFromScan(q, c) ==
  LET fwd  == prefetch_find_uncached_frame(c, ForwardScanFrom(q), q.end_frame, 1)
      flip == q.forward /\ fwd > q.end_frame
      q1   == IF flip THEN [q EXCEPT !.current_frame = fwd, !.forward = FALSE]
                      ELSE q
      cur  == IF q1.forward
                THEN fwd
                ELSE prefetch_find_uncached_frame(c, BackwardScanFrom(q1),
                                                  q1.start_frame, -1)
  IN  [current_frame |-> cur, queue |-> q1]

\* Faulty variant: a backward scan that finds nothing restarts the sweep,
\* forward from initial_frame.
NextFrameScan_Restarts(q, c) ==
  LET fwd  == prefetch_find_uncached_frame(c, ForwardScanFrom(q), q.end_frame, 1)
      flip == q.forward /\ fwd > q.end_frame
      q1   == IF flip THEN [q EXCEPT !.current_frame = q.initial_frame,
                                     !.forward = FALSE]
                      ELSE q
      cur  == IF q1.forward
                THEN fwd
                ELSE prefetch_find_uncached_frame(c, BackwardScanFrom(q1),
                                                  q1.start_frame, -1)
  IN  [current_frame |-> cur,
       queue |-> IF cur < q.start_frame
                   THEN [q EXCEPT !.current_frame = q.initial_frame,
                                  !.forward = TRUE]
                   ELSE q1]

\* The scan: the frame found and the queue after a possible flip.
NextFrameScan(q, c) ==
  LET fwd  == prefetch_find_uncached_frame(c, ForwardScanFrom(q), q.end_frame, 1)
      flip == q.forward /\ fwd > q.end_frame
      q1   == IF flip THEN [q EXCEPT !.current_frame = q.initial_frame,
                                     !.forward = FALSE]
                      ELSE q
      cur  == IF q1.forward
                THEN fwd
                ELSE prefetch_find_uncached_frame(c, BackwardScanFrom(q1),
                                                  q1.start_frame, -1)
  IN  [current_frame |-> cur, queue |-> q1]

\* Faulty variant: the forward sweep reports the frames left, not the frames
\* done.
QueueFramesProcessed_Remaining(q) ==
  IF q.forward
    THEN q.end_frame - q.current_frame
    ELSE (q.end_frame - q.initial_frame) + (q.initial_frame - q.current_frame)

\* frames_processed of the queue after it moved to its current frame.
QueueFramesProcessed(q) ==
  IF q.forward
    THEN q.current_frame - q.initial_frame
    ELSE (q.end_frame - q.initial_frame) + (q.initial_frame - q.current_frame)

\* Task w is about to call prefetch_thread_next_frame.  The pushed tasks are
\* interchangeable (same function, same task data): they are numbered in the
\* order in which they make their first call.
AtNext(w) ==
  \/ pc[w] = "next"
  \/ pc[w] = "pushed" /\ \A v \in Workers : v < w => pc[v] # "pushed"

\* The clip and (render_size, render_flag) the scan passes to
\* prefetch_find_uncached_frame.
ScanVariant(q) == q.variant

\* Faulty variant: next() does not wait for the lock.
BLI_spin_lock_NoWait == TRUE

\* BLI_spin_lock(&queue->spin) returns once no task holds the lock.
BLI_spin_lock == spin = 0

\* BLI_spin_lock, the guard and the scan.  With nothing to hand out the lock
\* is released at once and NULL returned, which ends the task's loop; with a
\* frame found the lock stays held for the file read.
W_Scan(w) ==
  /\ AtNext(w)
  /\ BLI_spin_lock
  /\ IF NextFrameAllowed(queue)
       THEN LET r == NextFrameScan(queue, cache)
            IN  /\ queue' = r.queue
                /\ IF IN_RANGE_INCL(r.current_frame, queue.start_frame, queue.end_frame)
                     THEN /\ wcur' = [wcur EXCEPT ![w] = r.current_frame]
                          /\ pc' = [pc EXCEPT ![w] = "read"]
                          /\ spin' = w
                          /\ hist' = HistKey(HistSelect(
                               [hist EXCEPT !.flips = IF r.queue.forward = queue.forward
                                                        THEN @ ELSE @ + 1],
                               w, r.current_frame), "lookup", ScanVariant(queue))
                     ELSE /\ pc' = [pc EXCEPT ![w] = "done"]
                          /\ wcur' = [wcur EXCEPT ![w] = 0]
                          /\ hist' = HistKey(
                               [hist EXCEPT !.flips = IF r.queue.forward = queue.forward
                                                        THEN @ ELSE @ + 1],
                               "lookup", ScanVariant(queue))
                          /\ UNCHANGED spin
       ELSE /\ pc' = [pc EXCEPT ![w] = "done"]
            /\ wcur' = [wcur EXCEPT ![w] = 0]
            /\ UNCHANGED <<queue, spin, hist>>
  /\ UNCHANGED <<ctx, cache, cap, G_is_break, phase, pj, stop, do_update,
                 progress, mv, env>>

\* Faulty variant: the file of the queue's cursor is read, which is still the
\* frame of the previous call.
FileFrameRead_Cursor(w) == queue.current_frame

\* The frame whose file prefetch_read_file_to_memory opens: the frame the scan
\* found, the one written to *r_current_frame.
FileFrameRead(w) == wcur[w]

\* The file is read (still under the lock), the cursor and the progress are
\* written, the lock is released.  A failed read returns NULL.
W_Read(w, ok) ==
  /\ pc[w] = "read"
  /\ ~ok => env.left > 0
  /\ LET q == [queue EXCEPT !.current_frame = wcur[w]]
     IN  /\ queue' = q
         /\ do_update' = 1
         /\ progress' = <<QueueFramesProcessed(q), q.end_frame - q.start_frame>>
  /\ spin' = 0
  /\ pc' = [pc EXCEPT ![w] = IF ok THEN "decode" ELSE "done"]
  /\ env' = IF ok THEN env ELSE [env EXCEPT !.left = @ - 1, !.fail = @ + 1]
  /\ hist' = IF ok
               THEN HistBuf(HistRead([hist EXCEPT !.handed =
                       Append(@, [frame |-> wcur[w], forward |-> queue.forward])],
                             w, FileFrameRead(w)), 1)
               ELSE [hist EXCEPT !.sel[w] = -1]
  /\ wcur' = IF ok THEN wcur ELSE [wcur EXCEPT ![w] = 0]
  /\ UNCHANGED <<ctx, cache, cap, G_is_break, phase, pj, stop, mv>>

(* -------------------------- prefetch_task_func ------------------------- *)

\* IMB_ibImageFromMemory: a failed decode `continue`s to the next frame,
\* before the MEM_freeN(mem) at the end of the loop's body.
W_Decode(w, ok) ==
  /\ pc[w] = "decode"
  /\ ~ok => env.left > 0
  /\ pc' = [pc EXCEPT ![w] = IF ok THEN "put" ELSE "next"]
  /\ env' = IF ok THEN env ELSE [env EXCEPT !.left = @ - 1, !.fail = @ + 1]
  /\ hist' = IF ok THEN HistDecode(hist, w, wcur[w])
                   ELSE [HistDecode(hist, w, wcur[w]) EXCEPT !.mem[w] = -1]
  /\ UNCHANGED <<ctx, cache, cap, G_is_break, phase, pj, stop, do_update,
                 progress, queue, spin, wcur, mv>>

\* Faulty variant: a task returns after its first accepted insertion.
TaskAfterPut_OneFrame(result) == IF result THEN "done" ELSE "full"

\* Faulty variant: a rejected insertion is ignored, the task asks for the
\* next frame.
TaskAfterPut_Ignores(result) == "next"

\* Where the task goes with the answer of the cache.
TaskAfterPut(result) == IF result THEN "next" ELSE "full"

\* Faulty variant: the task's user is filled from the editor's user.
TaskUserVariant_Editor(q) == EditorVariant

\* The clip and the user's (render_size, render_flag) of the task's insertion.
TaskUserVariant(q) == q.variant

\* BKE_movieclip_put_frame_if_possible, then the buffers are freed.
W_Put(w) ==
  /\ pc[w] = "put"
  /\ LET result == BKE_movieclip_put_frame_if_possible(cache, cap)
     IN  /\ cache' = IF result THEN cache \cup {wcur[w]} ELSE cache
         /\ pc' = [pc EXCEPT ![w] = TaskAfterPut(result)]
         /\ hist' = HistBuf(HistKey(HistKeyed(HistPut(hist, wcur[w], result), w,
                                              wcur[w], result),
                                    "insert", TaskUserVariant(queue)), -1)
         /\ wcur' = IF result THEN wcur ELSE [wcur EXCEPT ![w] = 0]
  /\ UNCHANGED <<ctx, cap, G_is_break, phase, pj, stop, do_update, progress,
                 queue, spin, mv, env>>

\* "no more space in the cache, stop reading frames": *stop = 1; break.
W_Full(w) ==
  /\ pc[w] = "full"
  /\ stop' = 1
  /\ pc' = [pc EXCEPT ![w] = "done"]
  /\ UNCHANGED <<ctx, cache, cap, G_is_break, phase, pj, do_update, progress,
                 queue, spin, wcur, mv, env, hist>>

(* ---------------------------- do_prefetch_movie ------------------------ *)

\* Faulty variant: the forward loop stops one frame short of end_frame.
MovieLoopCond_ShortEnd(m) ==
  IF m.forward THEN m.frame < pj.end_frame ELSE m.frame >= pj.start_frame

\* The loop condition of the running loop.
MovieLoopCond(m) ==
  IF m.forward THEN m.frame <= pj.end_frame ELSE m.frame >= pj.start_frame

\* Faulty variant: the test does not look at G.is_break.
MovieBreak_NoBreak == stop # 0

\* The test at the top of prefetch_movie_frame.
MovieBreak == check_prefetch_break \/ stop # 0

\* do_prefetch_movie returns: its locals are dead.
MovieDone(m) == [NoMovie EXCEPT !.pc = "done"]

\* Top of an iteration: the loop condition, then prefetch_movie_frame's
\* break test.  The first loop falls through to the second, the second to
\* the end of the function.
M_Iter ==
  /\ mv.pc = "iter"
  /\ IF MovieLoopCond(mv)
       THEN mv' = IF MovieBreak THEN MovieDone(mv) ELSE [mv EXCEPT !.pc = "lookup"]
       ELSE IF mv.forward
              THEN mv' = [mv EXCEPT !.forward = FALSE, !.frame = pj.current_frame]
              ELSE mv' = MovieDone(mv)
  /\ UNCHANGED <<ctx, cache, cap, G_is_break, phase, pj, stop, do_update,
                 progress, queue, spin, pc, wcur, env, hist>>

\* Faulty variant: the frame is decoded with the live clip's decoder.
MovieDecodeFrom_Live == "clip"

\* The clip prefetch_movie_frame hands to the decoder, to the cache lookup
\* and to the insertion.
MovieDecodeFrom == "clip_local"
MovieLookupIn == "clip"
MovieInsertInto == "clip"

\* The clip and the user's (render_size, render_flag) of prefetch_movie_frame:
\* one user serves the lookup and the insertion.
MovieUserVariant(j) == j.variant

\* The movie thread made `call` on `object`.
HistUse(h, object, call) == [h EXCEPT !.used = @ \cup {<<object, call>>}]

\* Faulty variant: the frame is decoded whether it is cached or not.
MovieSkipsDecode_Never(c, frame) == FALSE

\* `if (!BKE_movieclip_has_cached_frame(clip, &user))`: a cached frame is
\* not decoded.
MovieSkipsDecode(c, frame) == BKE_movieclip_has_cached_frame(c, frame)

\* BKE_movieclip_has_cached_frame(clip, &user)
M_Lookup ==
  /\ mv.pc = "lookup"
  /\ IF MovieSkipsDecode(cache, mv.frame)
       THEN mv' = [mv EXCEPT !.pc = "post"]
            /\ hist' = HistKey(HistUse(hist, MovieLookupIn, "lookup"),
                               "lookup", MovieUserVariant(pj))
       ELSE mv' = [mv EXCEPT !.pc = "decode"]
            /\ hist' = HistKey(HistUse(HistSelect(hist, MovieThread, mv.frame),
                                       MovieLookupIn, "lookup"),
                               "lookup", MovieUserVariant(pj))
  /\ UNCHANGED <<ctx, cache, cap, G_is_break, phase, pj, stop, do_update,
                 progress, queue, spin, pc, wcur, env>>

\* Faulty variant: a failed decode does not raise *stop.
MovieStopAfterDecode_Forgets(ok) == stop

\* What prefetch_movie_frame does to *stop with the decoder's answer.
MovieStopAfterDecode(ok) == IF ok THEN stop ELSE 1

\* BKE_movieclip_anim_ibuf_for_frame_no_lock(clip_local, &user)
M_Decode(ok) ==
  /\ mv.pc = "decode"
  /\ ~ok => env.left > 0
  /\ mv' = [mv EXCEPT !.pc = IF ok THEN "put" ELSE "post"]
  /\ stop' = MovieStopAfterDecode(ok)
  /\ env' = IF ok THEN env ELSE [env EXCEPT !.left = @ - 1, !.fail = @ + 1]
  /\ hist' = HistUse(IF ok THEN HistRead(HistDecode(hist, MovieThread, mv.frame),
                                          MovieThread, mv.frame)
                           ELSE HistDecode(hist, MovieThread, mv.frame),
                     MovieDecodeFrom, "decode")
  /\ UNCHANGED <<ctx, cache, cap, G_is_break, phase, pj, do_update, progress,
                 queue, spin, pc, wcur>>

\* Faulty variant: a full cache does not raise *stop.
MovieStopAfterPut_Forgets(result) == stop

\* What prefetch_movie_frame does to *stop with the answer of the cache.
MovieStopAfterPut(result) == IF result THEN stop ELSE 1

\* BKE_movieclip_put_frame_if_possible(clip, &user, ibuf)
M_Put ==
  /\ mv.pc = "put"
  /\ LET result == BKE_movieclip_put_frame_if_possible(cache, cap)
     IN  /\ cache' = IF result THEN cache \cup {mv.frame} ELSE cache
         /\ stop' = MovieStopAfterPut(result)
         /\ hist' = HistKey(HistUse(HistKeyed(HistPut(hist, mv.frame, result),
                                              MovieThread, mv.frame, result),
                                    MovieInsertInto, "insert"),
                            "insert", MovieUserVariant(pj))
  /\ mv' = [mv EXCEPT !.pc = "post"]
  /\ UNCHANGED <<ctx, cap, G_is_break, phase, pj, do_update, progress, queue,
                 spin, pc, wcur, env>>

\* The loop's step of the running loop.
MovieStep(m) == IF m.forward THEN m.frame + 1 ELSE m.frame - 1

\* prefetch_movie_frame returned true: progress is published, the loop steps.
M_Post ==
  /\ mv.pc = "post"
  /\ mv' = [mv EXCEPT !.pc = "iter", !.frame = MovieStep(mv),
                      !.frames_processed = @ + 1]
  /\ do_update' = 1
  /\ progress' = <<mv.frames_processed + 1, pj.end_frame - pj.start_frame>>
  /\ UNCHANGED <<ctx, cache, cap, G_is_break, phase, pj, stop, queue, spin,
                 pc, wcur, env, hist>>

(* ------------------------------ job's end ------------------------------ *)

\* Faulty variant: prefetch_startjob returns without waiting for the sweep.
RunReturned_NoWait == TRUE

\* Faulty variant: the pool call returns when the first task has finished.
RunReturned_FirstDone ==
  IF ctx.source = "SEQUENCE" THEN \E w \in Workers : pc[w] = "done"
  ELSE IF ctx.source = "MOVIE" THEN mv.pc = "done"
  ELSE TRUE

\* The sweep of the job's source kind has returned.
RunReturned ==
  IF ctx.source = "SEQUENCE" THEN \A w \in Workers : pc[w] \in {"done", "idle"}
  ELSE IF ctx.source = "MOVIE" THEN mv.pc = "done"
  ELSE TRUE

\* prefetch_startjob returns (for a sequence: BLI_task_pool_work_and_wait has
\* returned and the pool and the lock are freed).  The queue, the tasks and
\* the sweep's locals are gone with it.
JobReturn ==
  /\ phase = "running"
  /\ RunReturned
  /\ phase' = "ended"
  /\ queue' = NoQueue
  /\ pc' = [w \in Workers |-> "idle"]
  /\ mv' = NoMovie
  /\ hist' = [hist EXCEPT !.unjoined = {w \in Workers : pc[w] \notin {"idle", "done"}},
                          !.tot = Cardinality({w \in Workers : pc[w] # "idle"})]
  /\ UNCHANGED <<ctx, cache, cap, G_is_break, pj, stop, do_update, progress,
                 spin, wcur, env>>

\* Faulty variant: the clone is released whether or not the job has one.
FreesClone_Always(j) == TRUE

\* `if (clip_local)`: the job releases the clone it has.
FreesClone(j) == j.clip_local

\* The job host calls the job's free callback once the task has ended.
prefetch_freejob ==
  /\ phase = "ended"
  /\ phase' = "freed"
  /\ pj' = [pj EXCEPT !.clip_local = FALSE]
  /\ hist' = [hist EXCEPT !.cloneFrees = IF FreesClone(pj) THEN @ + 1 ELSE @,
                          !.jobFrees = @ + 1]
  /\ UNCHANGED <<ctx, cache, cap, G_is_break, stop, do_update, progress,
                 queue, spin, pc, wcur, mv, env>>

Next ==
  \/ clip_start_prefetch_job
  \/ prefetch_startjob
  \/ UserCancel
  \/ HostStop
  \/ EditorChange
  \/ \E f \in Frames : FgInsert(f)
  \/ \E f \in Frames : FgEvict(f)
  \/ \E w \in Workers : W_Scan(w)
  \/ \E w \in Workers, ok \in BOOLEAN : W_Read(w, ok)
  \/ \E w \in Workers, ok \in BOOLEAN : W_Decode(w, ok)
  \/ \E w \in Workers : W_Put(w)
  \/ \E w \in Workers : W_Full(w)
  \/ M_Iter
  \/ M_Lookup
  \/ \E ok \in BOOLEAN : M_Decode(ok)
  \/ M_Put
  \/ M_Post
  \/ JobReturn
  \/ prefetch_freejob

Spec == Init /\ [][Next]_vars

\* Every step of a pool task: one iteration of prefetch_task_func.
TaskStep(w) ==
  \/ W_Scan(w)
  \/ \E ok \in BOOLEAN : W_Read(w, ok)
  \/ \E ok \in BOOLEAN : W_Decode(w, ok)
  \/ W_Put(w)
  \/ W_Full(w)

\* Requests for an image sequence whose cache can fill: the runs of the
\* worker pool in which an insertion can be rejected.
PoolInit == Init /\ ctx.clip /\ ctx.source = "SEQUENCE" /\ cap = CapSmall

\* The steps of such a request: everything but the movie thread's.
PoolNext ==
  \/ clip_start_prefetch_job
  \/ prefetch_startjob
  \/ UserCancel
  \/ HostStop
  \/ \E f \in Frames : FgInsert(f)
  \/ \E f \in Frames : FgEvict(f)
  \/ \E w \in Workers : TaskStep(w)
  \/ JobReturn
  \/ prefetch_freejob

\* Requests for an image sequence, whatever the cache can hold.
SweepInit == Init /\ ctx.clip /\ ctx.source = "SEQUENCE"

\* The worker pool's sweep under the same scheduling as FairSpec.
SweepSpec ==
  SweepInit /\ [][PoolNext]_vars /\ WF_vars(\E w \in Workers : TaskStep(w))

\* The pool runs the pushed tasks on its threads until all have returned
\* (BLI_task_pool_work_and_wait): while some task can take a step, one does,
\* and the file read, decode and insertion calls return.
FairSpec ==
  PoolInit /\ [][PoolNext]_vars /\ WF_vars(\E w \in Workers : TaskStep(w))

(* ======================================================================= *)
(*                               Properties                                *)
(* ======================================================================= *)

Range == pj.start_frame .. pj.end_frame

\* The job's range is well formed: start <= initial <= end.
RangeOk == pj.start_frame <= pj.current_frame /\ pj.current_frame <= pj.end_frame

\* prefetch_startjob has returned.
Returned == phase \in {"ended", "freed"}

\* No cache change by others, no failure and no cancel request in this run.
Undisturbed == env.left = MaxEnv

\* A run from an empty cache that never reports "full", left undisturbed.
CleanRun == hist.cache0 = {} /\ cap = Unlimited /\ Undisturbed /\ RangeOk

RECURSIVE Total(_, _)
Total(f, S) == IF S = {} THEN 0
               ELSE LET x == CHOOSE y \in S : TRUE IN f[x] + Total(f, S \ {x})

\* a, a+1, ..., b
RECURSIVE Ascending(_, _)
Ascending(a, b) == IF a > b THEN << >> ELSE <<a>> \o Ascending(a + 1, b)

\* a, a-1, ..., b
RECURSIVE Descending(_, _)
Descending(a, b) == IF a < b THEN << >> ELSE <<a>> \o Descending(a - 1, b)

IsPrefix(s, t) == Len(s) <= Len(t) /\ SubSeq(t, 1, Len(s)) = s

\* C1 (as claimed): in the worker-pool path, a clean run over a well-formed
\* range leaves every frame of [start_frame, end_frame] in the cache.
C1_PoolFillsRange ==
  (ctx.source = "SEQUENCE" /\ Returned /\ CleanRun) => Range \subseteq cache

\* initial, initial+1, ..., end, then initial-1, ..., start
SweepOrder == Ascending(pj.current_frame, pj.end_frame) \o
              Descending(pj.current_frame - 1, pj.start_frame)

\* C2: in the single-thread path a clean run decodes initial, ..., end, then
\* initial-1, ..., start, each frame once, and leaves the whole range cached.
C2_MovieSweepOrder ==
  (ctx.source = "MOVIE" /\ phase # "idle" /\ phase # "skipped" /\ CleanRun) =>
     /\ IsPrefix(hist.decoded, SweepOrder)
     /\ Returned => (hist.decoded = SweepOrder /\ Range \subseteq cache)

C2_Witness ==
  /\ ctx.source = "MOVIE" /\ Returned /\ CleanRun
  /\ pj.start_frame < pj.current_frame /\ pj.current_frame < pj.end_frame
  /\ Len(hist.decoded) = pj.end_frame - pj.start_frame + 1

\* C3: in the worker-pool path no frame is handed out by next() twice, so no
\* frame is decoded twice and none is inserted twice, whatever the number of
\* workers, the interleaving and the other users of the cache do.
C3_NoFrameHandedTwice ==
  ctx.source = "SEQUENCE" =>
     /\ \A i, j \in 1..Len(hist.handed) :
          i # j => hist.handed[i].frame # hist.handed[j].frame
     /\ \A f \in Frames : hist.ndecoded[f] <= 1 /\ hist.ninserted[f] <= 1

C3_Witness ==
  /\ ctx.source = "SEQUENCE"
  /\ Len(hist.handed) >= 2
  /\ \E v, w \in Workers : v # w /\ pc[v] = "decode" /\ pc[w] = "decode"

\* C4 (as claimed): in the worker-pool path no worker begins a decode after
\* the first insertion was rejected as cache-full.
C4_NoDecodeAfterReject ==
  ctx.source = "SEQUENCE" => \A w \in Workers : hist.late[w] = 0

\* C4 (amended): with a cache that takes K frames, empty at the start and
\* with nothing evicted, at most K insertions succeed; and once the stop flag
\* is set each worker begins at most one more decode, that of the frame it
\* already holds.
C4_AtMostOneLateDecode ==
  ctx.source = "SEQUENCE" =>
     /\ \A w \in Workers : hist.lateStop[w] <= 1
     /\ (hist.cache0 = {} /\ env.evict = 0) =>
           Total(hist.ninserted, Frames) <= cap

C4_Witness ==
  /\ ctx.source = "SEQUENCE"
  /\ hist.rejected /\ stop # 0 /\ env.cancel = 0
  /\ \E w \in Workers : hist.lateStop[w] = 1

\* C5: in the single-thread path a rejected insertion raises the stop flag
\* and is followed by no decode and no insertion; with a cache that takes K
\* frames, empty at the start and with nothing evicted, at most K insertions
\* succeed.
C5_MovieStopsWhenFull ==
  ctx.source = "MOVIE" =>
     /\ hist.rejected => stop # 0
     /\ hist.late[MovieThread] = 0
     /\ ~hist.lateInsert
     /\ (hist.cache0 = {} /\ env.evict = 0) =>
           Total(hist.ninserted, Frames) <= cap

C5_Witness ==
  /\ ctx.source = "MOVIE" /\ Returned /\ RangeOk
  /\ hist.rejected /\ env.left = MaxEnv
  /\ Total(hist.ninserted, Frames) = cap
  /\ Cardinality(Range \ cache) >= 2

\* C6: the queue changes direction at most once, from forward to backward;
\* frames handed out forward are above initial_frame and increase, frames
\* handed out after the flip are below initial_frame and decrease.
C6_DirectionFlipsOnce ==
  ctx.source = "SEQUENCE" =>
     /\ hist.flips <= 1
     /\ phase = "running" => (queue.forward <=> hist.flips = 0)
     /\ \A i \in 1..Len(hist.handed) :
          IF hist.handed[i].forward
            THEN hist.handed[i].frame > pj.current_frame
            ELSE hist.handed[i].frame < pj.current_frame
     /\ \A i, j \in 1..Len(hist.handed) :
          i < j =>
            /\ hist.handed[j].forward => hist.handed[i].forward
            /\ (hist.handed[i].forward /\ hist.handed[j].forward) =>
                  hist.handed[i].frame < hist.handed[j].frame
            /\ (~hist.handed[i].forward /\ ~hist.handed[j].forward) =>
                  hist.handed[i].frame > hist.handed[j].frame

C6_Witness ==
  /\ ctx.source = "SEQUENCE"
  /\ Len(hist.handed) = 2
  /\ hist.handed[1].forward /\ ~hist.handed[2].forward
  /\ hist.flips = 1

\* C7: a call of next() that takes the lock while the stop flag or G.is_break
\* is set returns no work and leaves the cursor, the direction and the
\* progress alone; the worker that made it exits.
C7_SignalledNextReturnsNothing ==
  [][\A w \in Workers :
       (pc[w] \in {"pushed", "next"} /\ pc'[w] \notin {"pushed", "next", "idle"} /\
        (stop # 0 \/ G_is_break)) =>
          /\ pc'[w] = "done"
          /\ UNCHANGED <<queue, progress, do_update, cache>>
          /\ hist'.handed = hist.handed]_vars

C7_Witness ==
  /\ ctx.source = "SEQUENCE" /\ phase = "running"
  /\ env.cancel = 1 /\ cap = Unlimited /\ RangeOk
  /\ \A w \in Workers : pc[w] = "done"
  /\ Len(hist.handed) >= 1
  /\ (Range \ {pj.current_frame}) \ cache # {}

\* C8: when the stop flag or G.is_break is set as an iteration of
\* do_prefetch_movie begins, the function returns at once: no lookup, decode,
\* insertion or progress write follows and the backward pass is not entered.
C8_MovieReturnsOnSignal ==
  [][(mv.pc = "iter" /\ mv' # mv /\ MovieLoopCond(mv) /\ (stop # 0 \/ G_is_break)) =>
        /\ mv'.pc = "done"
        /\ UNCHANGED <<cache, hist, progress, do_update>>]_vars

C8_Witness ==
  /\ ctx.source = "MOVIE" /\ phase = "running" /\ mv.pc = "done"
  /\ env.cancel = 1 /\ cap = Unlimited /\ RangeOk
  /\ Len(hist.decoded) >= 1
  /\ Range \ cache # {}

\* C9 (as claimed): a request made while every frame of the range is cached
\* returns from the early-out check: no job, no clone, no task, no decode.
C9_WarmCacheSkipsJob ==
  (phase # "idle" /\ ctx.clip /\
   (prefetch_get_start_frame(ctx) .. prefetch_get_final_frame(ctx)) \subseteq hist.cache0) =>
     /\ phase = "skipped"
     /\ Total(hist.ndecoded, Frames) = 0

\* C10 (as claimed): no decode begins for a frame that is in the cache at
\* that moment.
C10_NeverDecodesCached ==
  hist.redecoded = {} /\ hist.racedDecodes = {}

\* C10 (amended): no decode begins for a frame that is in the cache at that
\* moment, unless another user of the cache inserted the frame after the scan
\* (worker pool) or the lookup (single thread) that selected it.
C10_DecodesCachedOnlyWhenRaced ==
  hist.redecoded = {}

C10_Witness ==
  /\ Returned
  /\ hist.cache0 \cap Range # {}
  /\ Total(hist.ndecoded, Frames) >= 1
  /\ \E f \in hist.cache0 \cap Range : hist.ndecoded[f] = 0

\* C11 (as claimed): no worker holds the queue's lock while it opens or reads
\* a frame's file or while it decodes.
C11_NoLockAcrossReadOrDecode ==
  \A w \in Workers : pc[w] \in {"read", "decode"} => spin # w

\* C12 (as claimed): for a range with start <= initial <= end every value
\* written to the progress fraction lies in [0,1], in both paths: the
\* numerator is never negative and never exceeds end_frame - start_frame.
C12_ProgressWithinUnit ==
  RangeOk => (progress[1] >= 0 /\ progress[1] <= progress[2])

\* (float)n / d as the job host reads it: a <= b on two values written as
\* <<numerator, divisor>>.  A zero divisor gives +inf for a positive
\* numerator and no ordered value (NaN) for a zero one.
ProgressLeq(a, b) ==
  /\ a[2] = 0 => a[1] > 0
  /\ b[2] = 0 => b[1] > 0
  /\ IF b[2] = 0 THEN TRUE
     ELSE IF a[2] = 0 THEN FALSE
     ELSE a[1] * b[2] <= b[1] * a[2]

\* C13: within one run the values written to the progress fraction never
\* decrease, across the flip and with several workers calling next(); and
\* every step that hands out a frame (worker pool) or finishes processing
\* one (single thread) leaves the dirty flag set.
C13_ProgressMonotonic ==
  [][/\ progress' # progress => ProgressLeq(progress, progress')
     /\ (\E w \in Workers : pc[w] = "read" /\ pc'[w] = "decode") => do_update' = 1
     /\ (mv.pc = "post" /\ mv'.pc = "iter") => do_update' = 1]_vars

C13_Witness ==
  /\ ctx.source = "SEQUENCE" /\ phase = "running"
  /\ Len(hist.handed) = 2
  /\ hist.handed[1].forward /\ ~hist.handed[2].forward
  /\ \A w \in Workers : pc[w] = "decode"
  /\ progress = <<pj.end_frame - pj.start_frame, pj.end_frame - pj.start_frame>>
  /\ do_update = 1

\* C14: for a queue initialised with start <= initial <= end the cursor
\* queue.current_frame is within [start_frame, end_frame] in every state of
\* the run; and a step changes it only to initial_frame, at the flip, or to
\* the frame the running call of next() found and passes out.
C14_CursorInRange ==
  /\ [](( ctx.source = "SEQUENCE" /\ phase = "running" /\ RangeOk) =>
           IN_RANGE_INCL(queue.current_frame, queue.start_frame, queue.end_frame))
  /\ [][(phase = "running" /\ phase' = "running" /\
         queue'.current_frame # queue.current_frame) =>
           \/ /\ queue'.current_frame = queue.initial_frame
              /\ queue.forward /\ ~queue'.forward
           \/ \E w \in Workers : pc[w] = "read" /\ pc'[w] # "read" /\
                                 queue'.current_frame = wcur[w]]_vars

C14_Witness ==
  /\ ctx.source = "SEQUENCE" /\ phase = "running"
  /\ queue.start_frame < queue.initial_frame
  /\ queue.initial_frame < queue.end_frame
  /\ hist.flips = 1 /\ Len(hist.handed) = 2
  /\ queue.current_frame = queue.start_frame

\* C15 (as claimed): in the worker-pool path, once a file read or a decode
\* has failed, no call of next() finds and hands out a further frame: the
\* sweep halts as it does when the cache is full.
C15_FailureHaltsSweep ==
  [][(ctx.source = "SEQUENCE" /\ env.fail > 0) =>
        \A w \in Workers :
          ~(pc[w] \in {"pushed", "next"} /\ pc'[w] = "read")]_vars

\* C16: in the single-thread path a failed decode inserts nothing and sets
\* the stop flag, and after it no frame is looked up, decoded or inserted.
C16_MovieDecodeFailureStops ==
  /\ []((ctx.source = "MOVIE" /\ env.fail > 0) =>
          (stop # 0 /\ mv.pc \notin {"lookup", "decode", "put"}))
  /\ [][(ctx.source = "MOVIE" /\ env.fail > 0) =>
          (hist'.ndecoded = hist.ndecoded /\ hist'.ninserted = hist.ninserted)]_vars
  /\ [][(mv.pc = "decode" /\ mv'.pc = "post") =>
          (stop' = 1 /\ cache' = cache /\ hist'.ninserted = hist.ninserted)]_vars

C16_Witness ==
  /\ ctx.source = "MOVIE" /\ phase = "running" /\ mv.pc = "done"
  /\ env.fail = 1 /\ stop = 1 /\ ~hist.rejected
  /\ Len(hist.decoded) = 2
  /\ Total(hist.ninserted, Frames) = 1
  /\ Cardinality(Range \ cache) >= 2

\* C17: in the worker-pool path a rejected insertion makes its worker set the
\* shared stop flag; the job never clears the flag; no call of next() that
\* takes the lock once the flag is set returns a frame; each worker begins at
\* most one more decode, that of the frame it holds; and every worker
\* eventually exits.
C17_BackpressureStopsAllWorkers ==
  /\ []((ctx.source = "SEQUENCE" /\ hist.rejected) =>
          /\ stop # 0 \/ \E w \in Workers : pc[w] = "full"
          /\ \A w \in Workers : hist.lateStop[w] <= 1)
  /\ [][stop # 0 =>
          /\ stop' # 0
          /\ \A w \in Workers :
               ~(pc[w] \in {"pushed", "next"} /\ pc'[w] = "read")]_vars
  /\ (ctx.source = "SEQUENCE" /\ hist.rejected) ~>
        (stop # 0 /\ \A w \in Workers : pc[w] \in {"done", "idle"})

C17_Witness ==
  /\ ctx.source = "SEQUENCE" /\ phase = "running"
  /\ hist.rejected /\ stop = 1 /\ Undisturbed
  /\ \A w \in Workers : pc[w] = "done"
  /\ \E w \in Workers : hist.lateStop[w] = 1
  /\ Cardinality(Range \ cache) >= 2

\* C18: a job created by clip_start_prefetch_job has a clone exactly when the
\* clip's source is a movie; prefetch_freejob releases the clone once when
\* the job has one and never otherwise, and releases the job itself once.
C18_CloneOnlyForMovie ==
  /\ phase \in {"started", "running", "ended"} =>
        (pj.clip_local <=> ctx.source = "MOVIE")
  /\ hist.jobFrees = (IF phase = "freed" THEN 1 ELSE 0)
  /\ hist.cloneFrees = (IF phase = "freed" /\ ctx.source = "MOVIE" THEN 1 ELSE 0)

C18_Witness ==
  /\ phase = "freed" /\ ctx.source = "MOVIE"
  /\ hist.cloneFrees = 1 /\ hist.jobFrees = 1
  /\ ~pj.clip_local
  /\ Len(hist.decoded) >= 1

\* C19: when clip_start_prefetch_job passes the early-out check, G.is_break
\* is false when the task is started, whatever it was before; as long as no
\* new cancel request is made it stays false, so a sweep that returns without
\* having selected a frame found every frame it looked at cached.
C19_StaleCancelCleared ==
  (phase \in {"started", "running"} /\ env.cancel = 0) =>
     /\ ~G_is_break
     /\ (Undisturbed /\ RangeOk /\ ~hist.rejected /\
         \E w \in Workers : pc[w] = "done") =>
           (Len(hist.handed) = 0 => Range \ {pj.current_frame} \subseteq cache)
     /\ (Undisturbed /\ RangeOk /\ mv.pc = "done") =>
           (Len(hist.decoded) = 0 => Range \subseteq cache)

C19_Witness ==
  /\ phase = "started" /\ hist.stale
  /\ ~G_is_break /\ env.cancel = 0
  /\ Range \ cache # {}

\* The steps a prefetch request can take: idle, then the early-out check
\* (skipped or started), the task running, the task ended, the job freed.
Lifecycle ==
  {<<"idle", "skipped">>, <<"idle", "started">>, <<"started", "running">>,
   <<"running", "ended">>, <<"ended", "freed">>}

\* C20: a request moves only along idle -> early-out check -> running ->
\* ended (completed or cancelled) -> freed; the task is started at most once
\* and only when the early-out check returned false; the task ends only when
\* its sweep has returned; the job's cleanup runs once, after the task has
\* ended and never while it is still running.
C20_JobLifecycle ==
  /\ [][/\ phase' # phase => <<phase, phase'>> \in Lifecycle
        /\ phase' # phase /\ phase = "idle" =>
              (phase' = "skipped" <=> prefetch_check_early_out(ctx, cache))
        /\ phase' # phase /\ phase' = "ended" =>
              /\ \A w \in Workers : pc[w] \in {"idle", "done"}
              /\ mv.pc \in {"idle", "done"}
              /\ spin = 0
        /\ hist'.jobFrees # hist.jobFrees =>
              (phase = "ended" /\ phase' = "freed")]_vars
  /\ [](/\ hist.jobFrees = (IF phase = "freed" THEN 1 ELSE 0)
        /\ phase \notin {"running"} =>
              (\A w \in Workers : pc[w] = "idle") /\ mv.pc = "idle")

C20_Witness ==
  /\ phase = "freed" /\ hist.jobFrees = 1
  /\ ctx.source = "SEQUENCE" /\ env.cancel = 1
  /\ Len(hist.handed) >= 1
  /\ Range \ (cache \cup {pj.current_frame}) # {}

\* C21: with no clip bound, clip_start_prefetch_job creates no job and no
\* clone, starts no task, and no step changes G.is_break or the cache.
C21_AbsentClipIsNoOp ==
  /\ [](~ctx.clip =>
          /\ phase \in {"idle", "skipped"}
          /\ pj = NoJob
          /\ cache = hist.cache0
          /\ Total(hist.ndecoded, Frames) = 0
          /\ (\A w \in Workers : pc[w] = "idle") /\ mv.pc = "idle")
  /\ [][~ctx.clip => UNCHANGED <<G_is_break, cache, pj, stop>>]_vars

C21_Witness ==
  /\ ~ctx.clip /\ phase = "skipped"
  /\ G_is_break
  /\ cache # Reachable(ctx)

\* C22 (as claimed): every job created by clip_start_prefetch_job has
\* start_frame <= current_frame <= end_frame, whatever the scene's range, the
\* editor's frame and the clip's length are.
C22_JobRangeWellFormed ==
  phase \notin {"idle", "skipped"} => RangeOk

\* C23: start_prefetch_threads returns only when every pushed task has
\* finished; once it has returned no task is left to touch the queue, and
\* the queue's lock is free when it is destroyed.
C23_PoolJoinsBeforeReturn ==
  ctx.source = "SEQUENCE" =>
     /\ hist.unjoined = {}
     /\ Returned => /\ \A w \in Workers : pc[w] = "idle"
                    /\ spin = 0
                    /\ queue = NoQueue

C23_Witness ==
  /\ ctx.source = "SEQUENCE" /\ Returned
  /\ hist.unjoined = {}
  /\ Len(hist.handed) >= 2
  /\ Total(hist.ninserted, Frames) >= 2

\* C24: every entry a run inserts, also a run cancelled or stopped midway, is
\* keyed by the frame whose image was read and decoded for it; and the frame
\* number and the buffer a worker got from one call of next() belong to the
\* same frame.
C24_EntriesKeyedByTheirFrame ==
  /\ hist.miskeyed = {}
  /\ \A w \in Workers : pc[w] \in {"decode", "put"} => hist.mem[w] = wcur[w]
  /\ mv.pc = "put" => hist.mem[MovieThread] = mv.frame

C24_Witness ==
  /\ ctx.source = "SEQUENCE" /\ Returned
  /\ env.cancel = 1
  /\ Total(hist.ninserted, Frames) >= 1
  /\ Range \ (cache \cup {pj.current_frame}) # {}

\* In a run with a well-formed range and no stop, cancel, failure or
\* rejection, a task can only have returned because its backward scan ran
\* below start_frame; a task being handed a frame then was handed it after
\* that (the lock keeps a scan from ending while a frame is being read).
HandoutAfterUnderrun ==
  /\ ctx.source = "SEQUENCE" /\ phase = "running" /\ RangeOk
  /\ stop = 0 /\ ~G_is_break /\ env.fail = 0 /\ env.cancel = 0 /\ ~hist.rejected
  /\ \E v \in Workers : pc[v] = "done"
  /\ \E w \in Workers : pc[w] = "read"

\* C25 (as claimed): once a backward scan has run below start_frame, no later
\* call of next() hands out a frame, whatever the cache does meanwhile.
C25_UnderrunIsFinal ==
  ~HandoutAfterUnderrun

\* C25 (amended): the sweep is never restarted: the direction changes at most
\* once and the cursor only moves up before the flip and down after it; after
\* a backward scan has run below start_frame a later call hands out a frame
\* only if a frame below the cursor was evicted meanwhile; at most
\* end_frame - start_frame + 1 frames are handed out; and under fair
\* scheduling every worker of a running pool exits.
C25_OnePassSweepTerminates ==
  /\ [](ctx.source = "SEQUENCE" =>
          /\ hist.flips <= 1
          /\ HandoutAfterUnderrun => env.evict > 0
          /\ Len(hist.handed) <= pj.end_frame - pj.start_frame + 1)
  /\ [][(phase = "running" /\ phase' = "running") =>
          /\ ~queue.forward => ~queue'.forward
          /\ (queue.forward /\ queue'.forward) =>
                queue'.current_frame >= queue.current_frame
          /\ ~queue.forward => queue'.current_frame <= queue.current_frame]_vars
  /\ (ctx.source = "SEQUENCE" /\ phase = "running") ~>
        (\A w \in Workers : pc[w] \in {"done", "idle"})

C25_Witness ==
  /\ HandoutAfterUnderrun /\ env.evict = 1
  /\ hist.flips = 1
  /\ cap = Unlimited

\* C26: at most one worker is inside the critical section of next() at a
\* time; the queue's cursor and direction change only in a step of the
\* worker that takes or holds the lock; so the frames the workers hold are
\* pairwise different, as if the calls had run one after the other.
C26_CursorSerialized ==
  /\ [](/\ Cardinality({w \in Workers : pc[w] = "read"}) <= 1
        /\ \A w \in Workers : pc[w] = "read" <=> spin = w
        /\ \A v, w \in Workers :
             (v # w /\ pc[v] \in {"read", "decode", "put"} /\
              pc[w] \in {"read", "decode", "put"}) => wcur[v] # wcur[w])
  /\ [][(phase = "running" /\ phase' = "running" /\ queue' # queue) =>
          \E w \in Workers :
             /\ pc'[w] # pc[w]
             /\ \/ spin = 0 /\ pc[w] \in {"pushed", "next"}
                \/ spin = w /\ spin' = 0]_vars

C26_Witness ==
  /\ ctx.source = "SEQUENCE" /\ phase = "running"
  /\ \E v, w \in Workers :
       /\ pc[v] = "read" /\ spin = v
       /\ pc[w] = "next" /\ hist.ndecoded[wcur[w]] = 1
  /\ Len(hist.handed) >= 1

\* C27: in the single-thread path every decode call reads from the job's
\* clone and none from the live clip's decoder; every cache lookup and every
\* insertion goes to the live clip; and the clone is touched only by the
\* job's background thread, while the job has it and the task runs.
C27_DecodeFromCloneOnly ==
  /\ [](/\ hist.used \subseteq {<<"clip", "lookup">>, <<"clip_local", "decode">>,
                               <<"clip", "insert">>}
        /\ hist.used # {} => ctx.source = "MOVIE"
        /\ ctx.source = "MOVIE" =>
              /\ Len(hist.decoded) > 0 <=> <<"clip_local", "decode">> \in hist.used
              /\ \A w \in Workers : pc[w] = "idle")
  /\ [][(<<"clip_local", "decode">> \in hist'.used \ hist.used) =>
           (pj.clip_local /\ phase = "running" /\ mv.pc = "decode")]_vars

C27_Witness ==
  /\ ctx.source = "MOVIE" /\ Returned
  /\ hist.used = {<<"clip", "lookup">>, <<"clip_local", "decode">>,
                  <<"clip", "insert">>}
  /\ Len(hist.decoded) >= 2
  /\ env.fg = 1

\* C28: a created job's start_frame is the scene start frame; its end_frame
\* is the smaller of the scene end frame and scene start + clip length - 1
\* when the clip length is not zero, and the scene end frame when it is
\* zero; and the early-out check computed the same end_frame.
C28_RangeComputation ==
  phase \in {"started", "running", "ended"} =>
    /\ pj.start_frame = ctx.sfra
    /\ ctx.len # 0 =>
         /\ pj.end_frame <= ctx.efra
         /\ pj.end_frame <= ctx.sfra + ctx.len - 1
         /\ pj.end_frame \in {ctx.efra, ctx.sfra + ctx.len - 1}
    /\ ctx.len = 0 => pj.end_frame = ctx.efra
    /\ hist.checkEnd = pj.end_frame

\* A job whose range the clip's length cuts short of the scene's end.
C28_Witness ==
  /\ phase = "running"
  /\ ctx.len # 0
  /\ pj.start_frame = ctx.sfra
  /\ pj.end_frame = ctx.sfra + ctx.len - 1
  /\ pj.end_frame < ctx.efra

\* C29: while a job exists, every cache lookup and every insertion of its
\* run is made for the clip and the (render_size, render_flag) pair the job
\* captured at creation, whatever the editor shows by then; the job's and
\* the queue's copies do not change during the run; and a frame is inserted
\* only under the key it was tested with (same frame, same variant).
C29_VariantStable ==
  /\ [](phase \in {"started", "running", "ended"} =>
          /\ \A k \in hist.keys : k[2] = pj.variant
          /\ (ctx.source = "SEQUENCE" /\ phase = "running") =>
                queue.variant = pj.variant
          /\ (\E k \in hist.keys : k[1] = "insert") =>
                (\E k \in hist.keys : k[1] = "lookup")
          /\ \A f \in Frames : hist.ninserted[f] > 0 =>
                \/ \E i \in DOMAIN hist.handed : hist.handed[i].frame = f
                \/ \E i \in DOMAIN hist.decoded : hist.decoded[i] = f)
  /\ [][/\ (phase \in {"started", "running"} /\ phase' # "freed") =>
              pj'.variant = pj.variant
        /\ (phase = "running" /\ phase' = "running") =>
              queue'.variant = queue.variant]_vars

\* The editor's variant changed during a pool run that inserted a frame
\* and goes on inserting.
C29_Witness ==
  /\ ctx.source = "SEQUENCE" /\ phase = "running"
  /\ env.variant = 1 /\ pj.variant = 0
  /\ hist.keys = {<<"lookup", 0>>, <<"insert", 0>>}
  /\ \E w \in Workers : pc[w] = "next"
  /\ \E f \in Frames : hist.ninserted[f] > 0

\* C30 (as claimed): a request with a clip bound that returns from the
\* early-out check found every frame of [start_frame, end_frame] cached;
\* equally, a request that finds a frame of the range uncached starts a job.
C30_SkipOnlyWhenWarm ==
  (phase # "idle" /\ ctx.clip) =>
    /\ phase = "skipped" =>
         (prefetch_get_start_frame(ctx) .. prefetch_get_final_frame(ctx))
            \subseteq hist.cache0
    /\ (prefetch_get_start_frame(ctx) .. prefetch_get_final_frame(ctx))
            \ hist.cache0 # {} => phase # "skipped"

\* C31 (as claimed): a worker-pool run that was started with initial_frame
\* uncached and was left undisturbed has handed out initial_frame by the
\* time the pool call returns.
C31_InitialFrameHandedOut ==
  (ctx.source = "SEQUENCE" /\ phase = "ended" /\ Undisturbed /\ cap = Unlimited
     /\ RangeOk /\ pj.current_frame \notin hist.cache0) =>
    \E i \in DOMAIN hist.handed : hist.handed[i].frame = pj.current_frame

\* C32 (as claimed): the file buffers alive are exactly those of the tasks
\* between next() and the release at the end of the loop's body: a task that
\* asks for the next frame or has exited holds none, and none is left when
\* the run is over.
C32_NoBufferLeak ==
  ctx.source = "SEQUENCE" =>
    hist.bufs = Cardinality({w \in Workers : pc[w] \in {"decode", "put"}})

\* C33 (as claimed): every value written to the progress fraction has a
\* divisor end_frame - start_frame other than zero, in both paths, a
\* one-frame range included.
C33_ProgressDivisorNonZero ==
  /\ progress[2] # 0
  /\ (phase = "running" /\ (mv.pc = "post" \/ \E w \in Workers : pc[w] = "read")) =>
        pj.end_frame - pj.start_frame # 0

\* C34 (as claimed): every frame a job reads, decodes or inserts lies in
\* [start_frame, end_frame], in both paths, wherever the editor's frame is.
C34_RunStaysInRange ==
  phase \in {"started", "running", "ended"} =>
    /\ \A i \in DOMAIN hist.handed : hist.handed[i].frame \in Range
    /\ \A f \in Frames : (hist.ndecoded[f] > 0 \/ hist.ninserted[f] > 0) => f \in Range

\* C35: a request that returns from the early-out check leaves G.is_break,
\* the job's flags and the cache as they were, and no job, clone or task
\* exists afterwards; G.is_break goes from set to clear only in the step
\* that starts a job.
C35_EarlyOutNoSideEffects ==
  /\ [](phase = "skipped" =>
          /\ pj = NoJob /\ ~pj.clip_local
          /\ (\A w \in Workers : pc[w] = "idle") /\ mv.pc = "idle"
          /\ queue = NoQueue
          /\ cache = hist.cache0
          /\ hist.cloneFrees = 0 /\ hist.jobFrees = 0)
  /\ [][/\ (phase = "idle" /\ phase' = "skipped") =>
              UNCHANGED <<G_is_break, stop, do_update, progress, cache>>
        /\ (G_is_break /\ ~G_is_break') => (phase = "idle" /\ phase' = "started")]_vars

\* A request with a clip bound and a pending cancel request took the
\* early-out.
C35_Witness ==
  /\ phase = "skipped" /\ ctx.clip
  /\ G_is_break
  /\ hist.checkEnd = prefetch_get_final_frame(ctx)

\* C36: in the single-thread path, as long as no other user of the cache has
\* evicted a frame, no frame has been passed to the decoder more than once,
\* and the decode calls name pairwise different frames.
C36_MovieDecodesOnce ==
  (ctx.source = "MOVIE" /\ env.evict = 0) =>
    /\ \A f \in Frames : hist.ndecoded[f] <= 1
    /\ \A i, j \in DOMAIN hist.decoded :
          hist.decoded[i] = hist.decoded[j] => i = j

\* A returned run whose two loops both visited initial_frame: it was decoded
\* by the forward loop, and the backward loop went on to decode a frame
\* before it.
C36_Witness ==
  /\ ctx.source = "MOVIE" /\ phase = "ended" /\ env.evict = 0 /\ RangeOk
  /\ Len(hist.decoded) >= 2
  /\ hist.decoded[1] = pj.current_frame
  /\ hist.decoded[Len(hist.decoded)] < pj.current_frame
  /\ hist.ndecoded[pj.current_frame] = 1

\* What a worker-pool sweep leaves in the cache when nothing disturbs it:
\* the frames cached before and the frames of the range next() hands out.
SweepResult ==
  hist.cache0 \cup {f \in Range : RangeOk /\ f # pj.current_frame}

\* C37: a completed worker-pool run with unlimited capacity, no failure, no
\* cancel request and no other user of the cache leaves a cache that depends
\* on the range and the initial cache only: it is the same for every number
\* of pushed tasks and every interleaving of their steps.
C37_WorkerCountIndependent ==
  (ctx.source = "SEQUENCE" /\ phase = "ended" /\ cap = Unlimited /\ Undisturbed) =>
    /\ hist.tot \in BLI_task_scheduler_num_threads
    /\ cache = SweepResult

\* A completed run of one task that handed out frames in both directions.
C37_Witness ==
  /\ ctx.source = "SEQUENCE" /\ phase = "ended" /\ cap = Unlimited /\ Undisturbed
  /\ hist.tot = 1
  /\ Len(hist.handed) >= 2
  /\ hist.handed[1].forward /\ ~hist.handed[Len(hist.handed)].forward
  /\ cache = SweepResult /\ cache # hist.cache0

====
